---- MODULE Spec2Model ----
(***************************************************************************)
(* State-machine model of the adamani_ai_rag backend: the session memory   *)
(* store (core/memory.py), the RAG query orchestrator                      *)
(* (services/rag_service.py), and the two "submit now, poll later" job     *)
(* trackers of api/routes/chat.py and api/routes/documents.py.             *)
(*                                                                         *)
(* Scheduling.  The route handlers are `async def` coroutines without any  *)
(* await in their bodies: the event loop runs each of them to completion   *)
(* before it starts another one.  The background tasks                     *)
(* (process_query_background, process_file_background) are plain `def`     *)
(* functions, which the framework runs on worker threads: their steps      *)
(* interleave freely with each other and with the handlers.                *)
(***************************************************************************)
EXTENDS Integers, Sequences, FiniteSets, TLC

\* ------------------------------------------------------------------ bounds
\* jobs submitted where the status endpoints are polled
MaxJobs == 1
\* concurrent background queries on the session memory
MaxQueries == 2
\* clients polling the status endpoints
MaxClients == 2
\* streaming queries
MaxStreams == 1
\* tokens a generation stream delivers at most
MaxTokens == 2
\* chunks a similarity search returns at most
MaxDocs == 2
\* texts the vector store holds at most
MaxIndex == 2
\* pages of a PDF at most
MaxPages == 4

Jobs == 1..MaxJobs
Queries == 1..MaxQueries
\* every request/upload id a submit may return
Ids == Jobs \cup Queries
Streams == 1..MaxStreams
\* the text fragments a generation stream may deliver
TokenTexts == {<<"a">>, <<"b", "c">>}
\* a request/upload id that no submit ever returns
NeverIssued == MaxJobs + MaxQueries + 1
ReadIds == {NeverIssued} \cup Jobs
Clients == 1..MaxClients
Sessions == {"s1", "s2"}
FileNames == {"doc.pdf"}
Trackers == {"query", "upload"}
\* chunk counts process_file may report
ChunkCounts == {0, 2}
\* What process_file may raise: the cause, and whether str(e) is longer
\* than the 200 characters process_file_background keeps of it.
ProcessFileFailures == {"extraction", "unsupported"} \X {"short", "long"}

VARIABLES
    histories,       \* MemoryManager._histories: session id -> transcript
    query_results,   \* chat.py _query_results: request id -> entry
    upload_results,  \* documents.py _upload_results: upload id -> entry
    upload_dir,      \* file names saved under settings.upload_dir
    kind,            \* per job id: "none" (not issued), "query" or "upload"
    sess,            \* per query job: the request's session_id
    pc,              \* per job: position of its background task
    work,            \* per job: what the work returned or raised
    handler,         \* per client: the status handler it is running, if any
    response,        \* the response sent by the step just taken, if any
    delivered,       \* per job id: how many terminal results were sent for it
    stream,          \* per streaming query: its generator's position and output
    local,           \* per query job: the locals of RAGService.query
    reply,           \* what the memory or index route just called answered
    index,           \* the texts the vector store holds
    extraction,      \* the PDF extraction under way: its input and its output
    ingest           \* the process_file call under way

\* what the chat, upload, status and stream routes leave alone
rest == <<reply, index, extraction, ingest>>

vars == <<histories, query_results, upload_results, upload_dir,
          kind, sess, pc, work, handler, response, delivered, stream,
          local, rest>>

\* ------------------------------------------------------------- dictionaries
Put(f, k, v) == [x \in (DOMAIN f) \cup {k} |-> IF x = k THEN v ELSE f[x]]
Del(f, k) == [x \in (DOMAIN f) \ {k} |-> f[x]]
EmptyDict == [x \in {} |-> 0]

\* ------------------------------------------------------------------ memory
Question(j) == <<"Q", j>>
Answer(j) == <<"A", j>>
HumanMessage(text) == [type |-> "human", content |-> text]
AIMessage(text) == [type |-> "ai", content |-> text]

\* MemoryManager.get_history: the store after the lazy creation
get_history(h, s) == IF s \in DOMAIN h THEN h ELSE Put(h, s, <<>>)

add_user_message(h, s, text) ==
    LET g == get_history(h, s) IN [g EXCEPT ![s] = Append(@, HumanMessage(text))]

\* an append that overwrites the latest turn
add_ai_message_over_last(h, s, text) ==
    LET g == get_history(h, s)
    IN [g EXCEPT ![s] = IF @ = <<>> THEN <<AIMessage(text)>>
                         ELSE [@ EXCEPT ![Len(@)] = AIMessage(text)]]

add_ai_message(h, s, text) ==
    LET g == get_history(h, s) IN [g EXCEPT ![s] = Append(@, AIMessage(text))]

\* ------------------------------------------------------ retrieved chunks
\* A text is a sequence of words; a blank line is two newlines.
Document(text, meta) == [page_content |-> text, metadata |-> meta]
Docs == {Document(<<"alpha">>, [source |-> "a.pdf", page |-> 1]),
         Document(<<"beta", "gamma">>, [source |-> "a.pdf", page |-> 2]),
         Document(<<>>, [source |-> "b.png", page |-> 1])}
\* what similarity_search may return: up to MaxDocs chunks, in its order
DocLists == UNION {[1..n -> Docs] : n \in 0..MaxDocs}
\* what it returns to the concurrent jobs
JobDocLists == {d \in [1..2 -> Docs] : d[1].metadata.page = 2 /\ d[2].metadata.source = "b.png"}

BlankLine == <<"\n", "\n">>

\* a join that puts nothing between the page contents
RECURSIVE ContentsRunTogether(_)
ContentsRunTogether(docs) ==
    IF docs = <<>> THEN <<>>
    ELSE docs[1].page_content \o ContentsRunTogether(Tail(docs))

\* RAGService._format_docs: "\n\n".join of the page contents
RECURSIVE format_docs(_)
format_docs(docs) ==
    IF docs = <<>> THEN <<>>
    ELSE IF Len(docs) = 1 THEN docs[1].page_content
    ELSE docs[1].page_content \o BlankLine \o format_docs(Tail(docs))

\* the sources list of a query result and of the sources event
Sources(docs) ==
    [i \in 1..Len(docs) |->
        [content |-> docs[i].page_content, metadata |-> docs[i].metadata]]

\* self.prompt.format_messages: system message with the context, the
\* chat history, the question as the human message
SystemMessage(context) == [type |-> "system", content |-> context]
format_messages(context, chat_history, question) ==
    <<SystemMessage(context)>> \o chat_history \o <<HumanMessage(question)>>

\* a clear that drops the latest turn only
DropsLastTurn(h, s) ==
    IF s \in DOMAIN h /\ h[s] # <<>>
    THEN [h EXCEPT ![s] = SubSeq(@, 1, Len(@) - 1)]
    ELSE h

\* a clear that removes the session from the store
ForgetsSession(h, s) == IF s \in DOMAIN h THEN Del(h, s) ELSE h

\* a clear that empties the transcript of every session
ClearsEverySession(h, s) ==
    IF s \in DOMAIN h THEN [t \in DOMAIN h |-> <<>>] ELSE h

\* MemoryManager.clear_history: empties the history of a session that
\* exists, and only logs for one that does not
clear_history(h, s) == IF s \in DOMAIN h THEN [h EXCEPT ![s] = <<>>] ELSE h

\* MemoryManager.clear_all: self._histories.clear()
clear_all(h) == EmptyDict

\* MemoryManager.get_session_count
get_session_count(h) == Cardinality(DOMAIN h)

\* the vector store: add_texts appends, clear removes every entry
vectorstore_add_texts(ix, texts) == ix \o texts
vectorstore_clear(ix) == <<>>

\* the lists of texts given to add_texts
TextLists == {<<"alpha">>, <<"alpha", "beta">>}

\* --------------------------------------------------------------- the search
\* ChatRequest.k: absent (None), or the number of chunks asked for
NoK == 0
RequestedK == {NoK, 1, 2}
\* Settings.retrieval_top_k
retrieval_top_k == 3

\* a query that ignores the k of the request
AlwaysDefaultK(k) == retrieval_top_k

\* RAGService.query, line 72: k = k or self.settings.retrieval_top_k
top_k(k) == IF k = NoK THEN retrieval_top_k ELSE k

\* how close an indexed text is to a question
Similarity(text, question) == IF text = "beta" THEN 2 ELSE 1

\* entry a of the index comes ahead of entry b in a search for question
Ahead(ix, question, a, b) ==
    \/ Similarity(ix[a], question) > Similarity(ix[b], question)
    \/ Similarity(ix[a], question) = Similarity(ix[b], question) /\ a < b

\* the vector store: the k entries closest to the question, closest
\* first, the earlier inserted first among equally close ones
similarity_search(ix, question, k) ==
    LET n == Len(ix)
        rank(a) == Cardinality({b \in 1..n : Ahead(ix, question, b, a)})
        at(r) == CHOOSE a \in 1..n : rank(a) = r - 1
    IN [r \in 1..(IF k < n THEN k ELSE n) |->
           Document(<<ix[at(r)]>>, [entry |-> at(r)])]

\* ------------------------------------------------------------ job outcomes
NoWork == [tag |-> "none"]
Returned(v) == [tag |-> "ok", value |-> v]
Raised(e) == [tag |-> "exc", error |-> e]

QueryResult(j) ==
    [answer |-> Answer(j), sources |-> Sources(local[j].docs), session_id |-> sess[j]]

\* process_query_background: the entry written for the query's outcome
QueryEntry(w) ==
    IF w.tag = "ok"
    THEN [status |-> "completed", result |-> w.value]
    ELSE [status |-> "error", error |-> w.error]

\* str(e)[:200]
First200(e) == IF e[2] = "long" THEN <<e[1], "cut">> ELSE e

\* process_file_background: the entry written for process_file's outcome
UploadEntry(w) ==
    IF w.tag = "ok"
    THEN [status |-> "success", documents_added |-> 1, chunks_created |-> w.value,
          message |-> "Successfully processed"]
    ELSE [status |-> "error", message |-> First200(w.error)]

NoResponse == [tr |-> "none"]
NoStream == [at |-> "idle"]

ProcessingEntry == [status |-> "processing", message |-> "Processing file..."]

\* what an earlier, finished query on session s1 left in the store
PriorExchange == <<HumanMessage(<<"Q", 0>>), AIMessage(<<"A", 0>>)>>
PriorStores == {EmptyDict, Put(EmptyDict, "s1", PriorExchange)}

NoLocals == [requested |-> 0, k |-> 0, docs |-> <<>>, context |-> <<>>, messages |-> <<>>]
NoReply == [route |-> "none", at |-> "idle"]
NoExtraction == [at |-> "idle"]
NoIngest == [at |-> "idle"]

\* nothing submitted, no handler running, an empty vector store
Blank ==
    /\ query_results = EmptyDict
    /\ upload_results = EmptyDict
    /\ upload_dir = {}
    /\ kind = [j \in Ids |-> "none"]
    /\ sess = [j \in Ids |-> "s1"]
    /\ pc = [j \in Ids |-> "idle"]
    /\ work = [j \in Ids |-> NoWork]
    /\ handler = [c \in Clients |-> [at |-> "idle"]]
    /\ response = NoResponse
    /\ delivered = [j \in Ids |-> 0]
    /\ stream = [k \in Streams |-> NoStream]
    /\ local = [j \in Ids |-> NoLocals]
    /\ reply = NoReply
    /\ index = <<>>
    /\ extraction = NoExtraction
    /\ ingest = NoIngest

Init == histories = EmptyDict /\ Blank

\* a step that sends no status response
Quiet == response' = NoResponse

\* ------------------------------------------------------------- event loop
\* A handler step of client c runs only while no other client's handler is
\* in progress: the handlers hold the loop from their first to their last
\* statement.
\* query_stream holds the loop between its two appends (lines 185-186)
StreamHoldsLoop == \E k \in Streams : stream[k].at = "user_added"
\* handlers that yield the loop in mid-run (an await between their statements)
LoopGrantsMidRun(c) == ~StreamHoldsLoop

LoopGrants(c) ==
    /\ \A o \in Clients \ {c} : handler[o].at = "idle"
    /\ ~StreamHoldsLoop
\* clear_all_memory holds the loop between its count and its wipe
ClearAllHoldsLoop == reply.at = "counted"
LoopIdle ==
    /\ \A c \in Clients : handler[c].at = "idle"
    /\ ~StreamHoldsLoop
    /\ ~ClearAllHoldsLoop

\* uuid.uuid4(): a fresh id, the ids are handed out in order
FreshId(j) == kind[j] = "none" /\ \A i \in Ids : i < j => kind[i] # "none"

\* ------------------------------------------------------------------- chat
\* POST /chat/: queues process_query_background and returns the request id.
chat(j, s) ==
    /\ LoopIdle
    /\ FreshId(j)
    /\ kind' = [kind EXCEPT ![j] = "query"]
    /\ sess' = [sess EXCEPT ![j] = s]
    /\ pc' = [pc EXCEPT ![j] = "queued"]
    /\ UNCHANGED <<histories, query_results, upload_results, upload_dir,
                   work, handler, delivered, stream,
                   local, rest>>
    /\ Quiet

Fail(j, cause) ==
    /\ work' = [work EXCEPT ![j] = Raised(cause)]
    /\ pc' = [pc EXCEPT ![j] = "raised"]

\* RAGService.query, lines 72-76: similarity_search and _format_docs
Retrieve(j, k, docs) ==
    /\ kind[j] = "query" /\ pc[j] = "queued"
    /\ \/ /\ pc' = [pc EXCEPT ![j] = "retrieved"]
          /\ local' = [local EXCEPT ![j].requested = k, ![j].k = top_k(k),
                                     ![j].docs = docs,
                                     ![j].context = format_docs(docs)]
          /\ UNCHANGED work
       \/ Fail(j, "retrieval") /\ UNCHANGED local
    /\ UNCHANGED <<histories, query_results, upload_results, upload_dir,
                   kind, sess, handler, delivered, stream, rest>>
    /\ Quiet

\* RAGService.query, lines 79-86: get_history and prompt.format_messages
AssemblePrompt(j) ==
    /\ kind[j] = "query" /\ pc[j] = "retrieved"
    /\ histories' = get_history(histories, sess[j])
    /\ \/ /\ pc' = [pc EXCEPT ![j] = "prompted"]
          /\ local' = [local EXCEPT ![j].messages =
                          format_messages(local[j].context, histories'[sess[j]],
                                          Question(j))]
          /\ UNCHANGED work
       \/ Fail(j, "prompt") /\ UNCHANGED local
    /\ UNCHANGED <<query_results, upload_results, upload_dir,
                   kind, sess, handler, delivered, stream, rest>>
    /\ Quiet

\* RAGService.query, lines 90-91: llm.invoke, which may raise or time out
Generate(j) ==
    /\ kind[j] = "query" /\ pc[j] = "prompted"
    /\ \/ pc' = [pc EXCEPT ![j] = "generated"] /\ UNCHANGED work
       \/ \E cause \in {"generation", "timeout"} : Fail(j, cause)
    /\ UNCHANGED <<histories, query_results, upload_results, upload_dir,
                   kind, sess, handler, delivered, stream,
                   local, rest>>
    /\ Quiet

\* RAGService.query, line 94
AddUser(j) ==
    /\ kind[j] = "query" /\ pc[j] = "generated"
    /\ histories' = add_user_message(histories, sess[j], Question(j))
    /\ pc' = [pc EXCEPT ![j] = "user_added"]
    /\ UNCHANGED <<query_results, upload_results, upload_dir,
                   kind, sess, work, handler, delivered, stream,
                   local, rest>>
    /\ Quiet

\* RAGService.query, line 95
AddAi(j) ==
    /\ kind[j] = "query" /\ pc[j] = "user_added"
    /\ histories' = add_ai_message(histories, sess[j], Answer(j))
    /\ pc' = [pc EXCEPT ![j] = "ai_added"]
    /\ UNCHANGED <<query_results, upload_results, upload_dir,
                   kind, sess, work, handler, delivered, stream,
                   local, rest>>
    /\ Quiet

\* RAGService.query, lines 97-113.  Line 97 evaluates len(answer): every
\* client LLMClient.get_client builds is a chat model, whose invoke returns
\* a message object without a length, while a plain-text model returns a
\* str.  lenOk is whether the answer object has a length.
Return(j) ==
    /\ kind[j] = "query" /\ pc[j] = "ai_added"
    /\ \E lenOk \in BOOLEAN :
          IF lenOk
          THEN /\ work' = [work EXCEPT ![j] = Returned(QueryResult(j))]
               /\ pc' = [pc EXCEPT ![j] = "returned"]
          ELSE Fail(j, "TypeError")
    /\ UNCHANGED <<histories, query_results, upload_results, upload_dir,
                   kind, sess, handler, delivered, stream,
                   local, rest>>
    /\ Quiet

\* a background task that stores its outcome again after it has finished
RecordsAgain(j) == pc[j] \in {"returned", "raised", "done"}
\* a background task without the except branch: a raised outcome is not stored
RecordsOnlyReturned(j) == pc[j] = "returned"

\* process_query_background, lines 29-40: the try's store or the except's
RecordEnabled(j) == pc[j] \in {"returned", "raised"}

RecordQuery(j) ==
    /\ kind[j] = "query" /\ RecordEnabled(j)
    /\ query_results' = Put(query_results, j, QueryEntry(work[j]))
    /\ pc' = [pc EXCEPT ![j] = "done"]
    /\ UNCHANGED <<histories, upload_results, upload_dir,
                   kind, sess, work, handler, delivered, stream,
                   local, rest>>
    /\ Quiet

\* ------------------------------------------------------------ upload_file
\* what upload_file answers: its status code and its body
UploadResponse(code, body) ==
    [tr |-> "submit", id |-> NeverIssued, after |-> FALSE,
     status_code |-> code, body |-> body]

\* an upload_file that writes a file of an unsupported format before it
\* rejects it
SavesBeforeValidating(j, name, supported, saved) ==
    /\ LoopIdle /\ ~supported
    /\ upload_dir' = upload_dir \cup {name}
    /\ response' = UploadResponse(400, [status |-> "error",
                                        message |-> "Unsupported file format"])
    /\ UNCHANGED <<histories, query_results, upload_results,
                   kind, sess, pc, work, handler, delivered, stream,
                   local, rest>>

\* POST /documents/upload.  supported is `file_ext in supported_doc_formats`,
\* saved is whether makedirs/open/copyfileobj went through without raising.
upload_file(j, name, supported, saved) ==
    /\ LoopIdle
    /\ IF ~supported
       THEN /\ response' = UploadResponse(400, [status |-> "error",
                                                message |-> "Unsupported file format"])
            /\ UNCHANGED <<histories, query_results, upload_results, upload_dir,
                           kind, sess, pc, work, handler, delivered, stream,
                           local, rest>>
       ELSE IF ~saved
       THEN /\ upload_dir' \in {upload_dir, upload_dir \cup {name}}
            /\ response' = UploadResponse(500, [status |-> "error",
                                                message |-> "Upload failed"])
            /\ UNCHANGED <<histories, query_results, upload_results,
                           kind, sess, pc, work, handler, delivered, stream,
                           local, rest>>
       ELSE /\ FreshId(j)
            /\ upload_dir' = upload_dir \cup {name}
            /\ upload_results' = Put(upload_results, j, ProcessingEntry)
            /\ kind' = [kind EXCEPT ![j] = "upload"]
            /\ pc' = [pc EXCEPT ![j] = "queued"]
            /\ response' = UploadResponse(202, [status |-> "processing",
                                                upload_id |-> j])
            /\ UNCHANGED <<histories, query_results, sess, work, handler, delivered,
                           stream, local, rest>>

\* process_file_background, lines 207-209: doc_service.process_file
ProcessFile(j) ==
    /\ kind[j] = "upload" /\ pc[j] = "queued"
    /\ \/ /\ \E n \in ChunkCounts : work' = [work EXCEPT ![j] = Returned(n)]
          /\ pc' = [pc EXCEPT ![j] = "returned"]
       \/ \E cause \in ProcessFileFailures : Fail(j, cause)
    /\ UNCHANGED <<histories, query_results, upload_results, upload_dir,
                   kind, sess, handler, delivered, stream,
                   local, rest>>
    /\ Quiet

\* process_file_background, lines 211-225: the try's store or the except's
RecordUpload(j) ==
    /\ kind[j] = "upload" /\ RecordEnabled(j)
    /\ upload_results' = Put(upload_results, j, UploadEntry(work[j]))
    /\ pc' = [pc EXCEPT ![j] = "done"]
    /\ UNCHANGED <<histories, query_results, upload_dir,
                   kind, sess, work, handler, delivered, stream,
                   local, rest>>
    /\ Quiet

\* --------------------------------------------------------- status handlers
Results(t) == IF t = "query" THEN query_results ELSE upload_results

\* id was returned by the submit of tracker t
Issued(t, id) == id \in Ids /\ kind[id] = t

\* the background task of id has written its outcome
Finished(id) == id \in Ids /\ pc[id] = "done"

\* what a status handler answers for an id its store does not hold:
\* get_query_status lines 92-99, get_upload_status lines 309-316
AbsentResponse(t) ==
    IF t = "query" THEN [status |-> "processing"] ELSE [status |-> "not_found"]

\* get_upload_status answering a terminal entry without deleting it
ConsumesNothingOfUploads(t, entry) == t = "query"

\* whether the handler deletes the entry it looked up: get_query_status
\* deletes in both of its branches, get_upload_status for success and error
Consumes(t, entry) ==
    IF t = "query" THEN TRUE ELSE entry.status \in {"success", "error"}

\* the response built from the entry that was looked up
EntryResponse(t, entry) ==
    IF t = "query"
    THEN IF entry.status = "completed"
         THEN [status |-> "completed", answer |-> entry.result.answer,
               session_id |-> entry.result.session_id]
         ELSE [status |-> "error",
               message |-> IF "error" \in DOMAIN entry THEN entry.error
                           ELSE "Unknown error"]
    ELSE IF entry.status \in {"success", "error"}
         THEN entry
         ELSE [status |-> "processing"]

\* an exception the handler does not catch
KeyError == [status |-> "KeyError"]

Terminal(body) == body.status \in {"completed", "success", "error"}

\* The handler of client c returns body.  `after` tells whether the handler
\* began after the background task of id had finished.
Respond(c, t, id, after, body) ==
    /\ response' = [tr |-> t, id |-> id, after |-> after, body |-> body]
    /\ handler' = [handler EXCEPT ![c] = [at |-> "idle"]]
    /\ delivered' = IF id \in Ids /\ Terminal(body)
                    THEN [delivered EXCEPT ![id] = @ + 1]
                    ELSE delivered

\* `if id not in results: return ...`
StatusBegin(c, t, id) ==
    /\ LoopGrants(c) /\ handler[c].at = "idle"
    /\ id = NeverIssued \/ Issued(t, id)
    /\ IF id \notin DOMAIN Results(t)
       THEN Respond(c, t, id, Finished(id), AbsentResponse(t))
       ELSE /\ handler' = [handler EXCEPT ![c] =
                            [at |-> "lookup", tr |-> t, id |-> id, after |-> Finished(id)]]
            /\ Quiet
            /\ UNCHANGED delivered
    /\ UNCHANGED <<histories, query_results, upload_results, upload_dir,
                   kind, sess, pc, work, stream,
                   local, rest>>

\* `result_data = results[id]`
StatusLookup(c) ==
    /\ LoopGrants(c) /\ handler[c].at = "lookup"
    /\ LET t == handler[c].tr
           id == handler[c].id
       IN IF id \in DOMAIN Results(t)
          THEN /\ handler' = [handler EXCEPT ![c] =
                               [at |-> "test", tr |-> t, id |-> id,
                                after |-> handler[c].after, data |-> Results(t)[id]]]
               /\ Quiet
               /\ UNCHANGED delivered
          ELSE Respond(c, t, id, handler[c].after, KeyError)
    /\ UNCHANGED <<histories, query_results, upload_results, upload_dir,
                   kind, sess, pc, work, stream,
                   local, rest>>

\* the test of result_data["status"], `del results[id]`, and the return
StatusFinish(c) ==
    /\ LoopGrants(c) /\ handler[c].at = "test"
    /\ LET t == handler[c].tr
           id == handler[c].id
           data == handler[c].data
           after == handler[c].after
       IN IF ~Consumes(t, data)
          THEN /\ Respond(c, t, id, after, EntryResponse(t, data))
               /\ UNCHANGED <<query_results, upload_results>>
          ELSE IF id \notin DOMAIN Results(t)
          THEN /\ Respond(c, t, id, after, KeyError)
               /\ UNCHANGED <<query_results, upload_results>>
          ELSE /\ Respond(c, t, id, after, EntryResponse(t, data))
               /\ IF t = "query"
                  THEN /\ query_results' = Del(query_results, id)
                       /\ UNCHANGED upload_results
                  ELSE /\ upload_results' = Del(upload_results, id)
                       /\ UNCHANGED query_results
    /\ UNCHANGED <<histories, upload_dir, kind, sess, pc, work, stream,
                   local, rest>>

\* ------------------------------------------------------ streaming queries
\* POST /chat/stream.  stream[k].out is what event_generator has yielded to
\* the client, stream[k].text is query_stream's full_response.
StreamQuestion(k) == <<"SQ", k>>

SourcesEvent(docs, s) == [type |-> "sources", sources |-> Sources(docs), session_id |-> s]
TokenEvent(tok) == [type |-> "token", token |-> tok]
DoneEvent(s) == [type |-> "done", session_id |-> s]
ErrorEvent(e) == [type |-> "error", error |-> e]

Emit(k, at, ev) == stream' = [stream EXCEPT ![k].at = at, ![k].out = Append(@, ev)]

chat_stream(k, s) ==
    /\ LoopIdle
    /\ stream[k].at = "idle"
    /\ \A i \in Streams : i < k => stream[i].at # "idle"
    /\ stream' = [stream EXCEPT ![k] =
                    [at |-> "started", session |-> s, out |-> <<>>, text |-> <<>>,
                     docs |-> <<>>, messages |-> <<>>]]
    /\ Quiet
    /\ UNCHANGED <<histories, query_results, upload_results, upload_dir,
                   kind, sess, pc, work, handler, delivered,
                   local, rest>>

\* query_stream, lines 196-201: the except branch yields an error event
StreamFail(k, cause) == Emit(k, "error_sent", ErrorEvent(cause))

\* query_stream, lines 136-152: similarity_search, then the sources event
StreamRetrieve(k, docs) ==
    /\ LoopIdle
    /\ stream[k].at = "started"
    /\ \/ stream' = [stream EXCEPT ![k].at = "sources_sent", ![k].docs = docs,
                         ![k].out = Append(@, SourcesEvent(docs, stream[k].session))]
       \/ StreamFail(k, "retrieval")
    /\ Quiet
    /\ UNCHANGED <<histories, query_results, upload_results, upload_dir,
                   kind, sess, pc, work, handler, delivered,
                   local, rest>>

\* a query_stream that records the question while it assembles the prompt
StreamAssembleAppends(k) ==
    /\ LoopIdle
    /\ stream[k].at = "sources_sent"
    /\ histories' = add_user_message(histories, stream[k].session, StreamQuestion(k))
    /\ \/ stream' = [stream EXCEPT ![k].at = "streaming", ![k].messages =
                         format_messages(format_docs(stream[k].docs),
                                         histories'[stream[k].session],
                                         StreamQuestion(k))]
       \/ StreamFail(k, "prompt")
    /\ Quiet
    /\ UNCHANGED <<query_results, upload_results, upload_dir,
                   kind, sess, pc, work, handler, delivered,
                   local, rest>>

\* query_stream, lines 154-168: _format_docs, get_history, format_messages
StreamAssemble(k) ==
    /\ LoopIdle
    /\ stream[k].at = "sources_sent"
    /\ histories' = get_history(histories, stream[k].session)
    /\ \/ stream' = [stream EXCEPT ![k].at = "streaming", ![k].messages =
                         format_messages(format_docs(stream[k].docs),
                                         histories'[stream[k].session],
                                         StreamQuestion(k))]
       \/ StreamFail(k, "prompt")
    /\ Quiet
    /\ UNCHANGED <<query_results, upload_results, upload_dir,
                   kind, sess, pc, work, handler, delivered,
                   local, rest>>

\* query_stream, lines 171-182: one chunk of llm.astream
StreamToken(k, tok) ==
    /\ LoopIdle
    /\ stream[k].at = "streaming"
    /\ Len(stream[k].out) <= MaxTokens
    /\ stream' = [stream EXCEPT ![k].text = @ \o tok,
                                ![k].out = Append(@, TokenEvent(tok))]
    /\ Quiet
    /\ UNCHANGED <<histories, query_results, upload_results, upload_dir,
                   kind, sess, pc, work, handler, delivered,
                   local, rest>>

\* llm.astream raises or times out, before the first chunk or after any
StreamGenerationFails(k) ==
    /\ LoopIdle
    /\ stream[k].at = "streaming"
    /\ \E cause \in {"generation", "timeout"} : StreamFail(k, cause)
    /\ Quiet
    /\ UNCHANGED <<histories, query_results, upload_results, upload_dir,
                   kind, sess, pc, work, handler, delivered,
                   local, rest>>

\* query_stream, line 185, once llm.astream is exhausted
StreamAddUser(k) ==
    /\ LoopIdle
    /\ stream[k].at = "streaming"
    /\ histories' = add_user_message(histories, stream[k].session, StreamQuestion(k))
    /\ stream' = [stream EXCEPT ![k].at = "user_added"]
    /\ Quiet
    /\ UNCHANGED <<query_results, upload_results, upload_dir,
                   kind, sess, pc, work, handler, delivered,
                   local, rest>>

\* a query_stream that sends done ahead of the assistant turn
StreamDoneFirst(k) ==
    /\ stream[k].at = "user_added"
    /\ Emit(k, "ended", DoneEvent(stream[k].session))
    /\ Quiet
    /\ UNCHANGED <<histories, query_results, upload_results, upload_dir,
                   kind, sess, pc, work, handler, delivered,
                   local, rest>>

\* query_stream, lines 186-194: the second append, then the done event
StreamAddAi(k) ==
    /\ stream[k].at = "user_added"
    /\ histories' = add_ai_message(histories, stream[k].session, stream[k].text)
    /\ Emit(k, "ended", DoneEvent(stream[k].session))
    /\ Quiet
    /\ UNCHANGED <<query_results, upload_results, upload_dir,
                   kind, sess, pc, work, handler, delivered,
                   local, rest>>

\* query_stream, line 202, re-raises after its error event; event_generator
\* (chat.py lines 187-193) catches that and yields an error event of its own
StreamReraise(k) ==
    /\ LoopIdle
    /\ stream[k].at = "error_sent"
    /\ Emit(k, "ended", ErrorEvent(stream[k].out[Len(stream[k].out)].error))
    /\ Quiet
    /\ UNCHANGED <<histories, query_results, upload_results, upload_dir,
                   kind, sess, pc, work, handler, delivered,
                   local, rest>>

\* a generator that stores the question and the partial answer when its
\* consumer goes away
StreamClosePersists(k) ==
    /\ LoopIdle
    /\ stream[k].at \in {"started", "sources_sent", "streaming", "error_sent"}
    /\ histories' = add_ai_message(
                        add_user_message(histories, stream[k].session, StreamQuestion(k)),
                        stream[k].session, stream[k].text)
    /\ stream' = [stream EXCEPT ![k].at = "closed"]
    /\ Quiet
    /\ UNCHANGED <<query_results, upload_results, upload_dir,
                   kind, sess, pc, work, handler, delivered,
                   local, rest>>

\* The client goes away while the generator is suspended: the generator is
\* closed where it stands and runs no further statement.
StreamClose(k) ==
    /\ LoopIdle
    /\ stream[k].at \in {"started", "sources_sent", "streaming", "error_sent"}
    /\ stream' = [stream EXCEPT ![k].at = "closed"]
    /\ Quiet
    /\ UNCHANGED <<histories, query_results, upload_results, upload_dir,
                   kind, sess, pc, work, handler, delivered,
                   local, rest>>

\* ------------------------------------------------------------ PDF extraction
\* A PDF is the sequence of its pages, a page being the number of
\* characters direct text extraction finds on it.
PageLengths == {0, 49, 100, 500}
Pdfs == UNION {[1..n -> PageLengths] : n \in 0..MaxPages}
PdfPath == "doc.pdf"

\* dict.update
Update(meta, new) ==
    [key \in (DOMAIN meta) \cup (DOMAIN new) |->
        IF key \in DOMAIN new THEN new[key] ELSE meta[key]]

\* PyPDFLoader(pdf_path).load(): one document per page, pages counted from 0
Loaded(pdf) ==
    [i \in 1..Len(pdf) |->
        Document([via |-> "direct", length |-> pdf[i]],
                 [source |-> PdfPath, page |-> i - 1])]

\* _process_with_ocr, lines 111-132: one document per page image
OcrDocuments(pdf) ==
    [i \in 1..Len(pdf) |->
        Document([via |-> "ocr", length |-> 500],
                 [source |-> PdfPath, filename |-> PdfPath, page |-> i,
                  total_pages |-> Len(pdf), type |-> "pdf_ocr"])]

\* extract_text_from_pdf, lines 55-62: the metadata written on every page
WithMetadata(documents) ==
    [i \in 1..Len(documents) |->
        [documents[i] EXCEPT !.metadata =
            Update(@, [source |-> PdfPath, filename |-> PdfPath, page |-> i,
                       total_pages |-> Len(documents), type |-> "pdf"])]]

RECURSIVE TotalLength(_)
TotalLength(documents) ==
    IF documents = <<>> THEN 0
    ELSE Head(documents).page_content.length + TotalLength(Tail(documents))

Min(a, b) == IF a < b THEN a ELSE b

\* a heuristic that averages over every page
is_scanned_over_all_pages(documents) ==
    \/ documents = <<>>
    \/ TotalLength(documents) < 100 * Len(documents)

\* PDFProcessor._is_scanned_pdf.  avg_length < 100, avg_length being the
\* quotient of the total by the number of sample pages.
is_scanned_pdf(documents) ==
    \/ documents = <<>>
    \/ LET sample_pages == SubSeq(documents, 1, Min(3, Len(documents)))
       IN TotalLength(sample_pages) < 100 * Len(sample_pages)

ExtractionRaises(e) == extraction' = [extraction EXCEPT !.at = "raised", !.error = e]

\* extract_text_from_pdf, lines 39-48: the existence test and the loader
extract_text_from_pdf(pdf, use_ocr) ==
    /\ extraction.at = "idle"
    /\ \/ extraction' = [at |-> "loaded", pdf |-> pdf, use_ocr |-> use_ocr,
                          documents |-> Loaded(pdf), through |-> "direct",
                          error |-> "none"]
       \/ \E e \in {"FileNotFoundError", "load"} :
             extraction' = [at |-> "raised", pdf |-> pdf, use_ocr |-> use_ocr,
                            documents |-> <<>>, through |-> "direct", error |-> e]
    /\ Quiet
    /\ UNCHANGED <<histories, query_results, upload_results, upload_dir, kind, sess,
                   pc, work, handler, delivered, stream, local, reply, index, ingest>>

\* extract_text_from_pdf, line 51
ChooseExtraction ==
    /\ extraction.at = "loaded"
    /\ extraction' = [extraction EXCEPT !.at =
                         IF extraction.use_ocr \/ is_scanned_pdf(extraction.documents)
                         THEN "ocr" ELSE "extracted"]
    /\ Quiet
    /\ UNCHANGED <<histories, query_results, upload_results, upload_dir, kind, sess,
                   pc, work, handler, delivered, stream, local, reply, index, ingest>>

\* _process_with_ocr: the pages through OCR; no page at all when pdf2image
\* is not installed; or the failure of the conversion or of the OCR
process_with_ocr ==
    /\ extraction.at = "ocr"
    /\ \/ extraction' = [extraction EXCEPT !.at = "extracted", !.through = "ocr",
                             !.documents = OcrDocuments(extraction.pdf)]
       \/ extraction' = [extraction EXCEPT !.at = "extracted", !.through = "ocr",
                             !.documents = <<>>, !.error = "ImportError"]
       \/ ExtractionRaises("ocr")
    /\ Quiet
    /\ UNCHANGED <<histories, query_results, upload_results, upload_dir, kind, sess,
                   pc, work, handler, delivered, stream, local, reply, index, ingest>>

\* extract_text_from_pdf, lines 55-65: the metadata, then the return
ReturnDocuments ==
    /\ extraction.at = "extracted"
    /\ extraction' = [extraction EXCEPT !.at = "returned",
                             !.documents = WithMetadata(extraction.documents)]
    /\ Quiet
    /\ UNCHANGED <<histories, query_results, upload_results, upload_dir, kind, sess,
                   pc, work, handler, delivered, stream, local, reply, index, ingest>>

\* ---------------------------------------------------------- file ingestion
\* the suffixes of the paths given to process_file
Suffixes == {".pdf", ".PDF", ".png", ".txt"}
\* str.lower on a suffix
Lower(suffix) == IF suffix = ".PDF" THEN ".pdf" ELSE suffix

\* an image branch that also takes text files
ImageFormatsAndText == {".png", ".jpg", ".jpeg", ".tiff", ".bmp", ".txt"}

\* process_file, line 115
ImageFormats == {".png", ".jpg", ".jpeg", ".tiff", ".bmp"}

\* how many chunks the text splitter cuts a text of the given length into
Parts(length) == IF length = 0 THEN 0 ELSE IF length <= 100 THEN 1 ELSE 2

\* text_splitter.split_documents: the chunks of every document, in order,
\* each with the metadata of its document
RECURSIVE split_documents(_)
split_documents(documents) ==
    IF documents = <<>> THEN <<>>
    ELSE LET doc == Head(documents)
         IN [p \in 1..Parts(doc.page_content.length) |->
                Document([via |-> doc.page_content.via, part |-> p], doc.metadata)]
            \o split_documents(Tail(documents))

\* the vector store: add_documents appends the chunks in one batch
vectorstore_add_documents(ix, chunks) ==
    ix \o [i \in 1..Len(chunks) |-> chunks[i].page_content]

\* a process_documents that reports the number of documents
CountsDocuments(chunks) == Len(ingest.documents)

\* process_documents, line 91: return len(chunks)
ChunkCount(chunks) == Len(chunks)

IngestRaises(e) == ingest' = [ingest EXCEPT !.at = "raised", !.error = e]

\* DocumentService.process_file, lines 108-118: the branch on the suffix
process_file(suffix, use_ocr) ==
    /\ ingest.at = "idle"
    /\ LET file_ext == Lower(suffix)
           call == [at |-> "idle", file_ext |-> file_ext, use_ocr |-> use_ocr,
                    documents |-> <<>>, chunks |-> <<>>, before |-> index,
                    inserts |-> 0, result |-> "none", error |-> "none"]
       IN ingest' = IF file_ext = ".pdf" THEN [call EXCEPT !.at = "pdf"]
                    ELSE IF file_ext \in ImageFormats THEN [call EXCEPT !.at = "image"]
                    ELSE [call EXCEPT !.at = "raised", !.error = "Unsupported file type"]
    /\ Quiet
    /\ UNCHANGED <<histories, query_results, upload_results, upload_dir, kind, sess,
                   pc, work, handler, delivered, stream, local, reply, index, extraction>>

\* process_file, lines 113-116: process_pdf_to_documents returns what
\* extract_text_from_pdf returns, or lets its failure through
PdfDocuments ==
    /\ ingest.at = "pdf"
    /\ \/ /\ extraction.at = "returned"
          /\ ingest' = [ingest EXCEPT !.at = "documents",
                                       !.documents = extraction.documents]
       \/ /\ extraction.at = "raised"
          /\ IngestRaises(extraction.error)
    /\ Quiet
    /\ UNCHANGED <<histories, query_results, upload_results, upload_dir, kind, sess,
                   pc, work, handler, delivered, stream, local, reply, index, extraction>>

\* process_file, lines 119-121: process_image_to_document, one document
\* for the image, or the failure of the OCR
ImageDocument ==
    /\ ingest.at = "image"
    /\ \/ \E length \in {0, 500} :
             ingest' = [ingest EXCEPT !.at = "documents", !.documents =
                          <<Document([via |-> "ocr", length |-> length],
                                     [source |-> "scan.png", filename |-> "scan.png",
                                      type |-> "ocr", format |-> ".png"])>>]
       \/ IngestRaises("ocr")
    /\ Quiet
    /\ UNCHANGED <<histories, query_results, upload_results, upload_dir, kind, sess,
                   pc, work, handler, delivered, stream, local, reply, index, extraction>>

\* process_documents, line 84: the text splitter over every document
SplitDocuments ==
    /\ ingest.at = "documents"
    /\ \/ ingest' = [ingest EXCEPT !.at = "chunked",
                                    !.chunks = split_documents(ingest.documents)]
       \/ IngestRaises("chunking")
    /\ Quiet
    /\ UNCHANGED <<histories, query_results, upload_results, upload_dir, kind, sess,
                   pc, work, handler, delivered, stream, local, reply, index, extraction>>

\* process_documents, lines 88-91, and the return of process_file: one
\* add_documents call with every chunk, then the count
AddDocuments ==
    /\ ingest.at = "chunked"
    /\ \/ /\ index' = vectorstore_add_documents(index, ingest.chunks)
          /\ ingest' = [ingest EXCEPT !.at = "returned", !.inserts = @ + 1,
                                       !.result = ChunkCount(ingest.chunks)]
       \/ /\ ingest' = [ingest EXCEPT !.at = "raised", !.inserts = @ + 1,
                                       !.error = "insertion"]
          /\ UNCHANGED index
    /\ Quiet
    /\ UNCHANGED <<histories, query_results, upload_results, upload_dir, kind, sess,
                   pc, work, handler, delivered, stream, local, reply, extraction>>

\* ------------------------------------------------- memory and index routes
\* DELETE /chat/memory/{session_id}: the reply is the same whether or not
\* the session exists, clear_history returns None either way.
clear_memory(s) ==
    /\ LoopIdle
    /\ histories' = clear_history(histories, s)
    /\ reply' = [route |-> "clear_memory", at |-> "returned", session |-> s,
                 status |-> "success",
                 message |-> <<"Cleared memory for session", s>>]
    /\ Quiet
    /\ UNCHANGED <<query_results, upload_results, upload_dir, kind, sess, pc, work,
                   handler, delivered, stream, local, index, extraction, ingest>>

\* DELETE /chat/memory, line 153: count = get_session_count()
ClearAllCount ==
    /\ LoopIdle
    /\ reply' = [route |-> "clear_all_memory", at |-> "counted",
                 count |-> get_session_count(histories)]
    /\ Quiet
    /\ UNCHANGED <<histories, query_results, upload_results, upload_dir, kind, sess,
                   pc, work, handler, delivered, stream, local, index, extraction, ingest>>

\* DELETE /chat/memory, lines 154-158: clear_all(), then the reply with the
\* count taken before
ClearAllWipe ==
    /\ reply.at = "counted"
    /\ histories' = clear_all(histories)
    /\ reply' = [route |-> "clear_all_memory", at |-> "returned",
                 status |-> "success",
                 message |-> <<"Cleared", reply.count, "session histories">>]
    /\ Quiet
    /\ UNCHANGED <<query_results, upload_results, upload_dir, kind, sess, pc, work,
                   handler, delivered, stream, local, index, extraction, ingest>>

\* DocumentService.add_texts
add_texts(texts) ==
    /\ LoopIdle
    /\ Len(index) + Len(texts) <= MaxIndex
    /\ index' = vectorstore_add_texts(index, texts)
    /\ Quiet
    /\ UNCHANGED <<histories, query_results, upload_results, upload_dir, kind, sess,
                   pc, work, handler, delivered, stream, local, reply, extraction, ingest>>

\* DELETE /documents/clear
clear_knowledge_base ==
    /\ LoopIdle
    /\ index' = vectorstore_clear(index)
    /\ reply' = [route |-> "clear_knowledge_base", at |-> "returned",
                 status |-> "success", message |-> <<"Knowledge base cleared">>]
    /\ Quiet
    /\ UNCHANGED <<histories, query_results, upload_results, upload_dir, kind, sess,
                   pc, work, handler, delivered, stream, local, extraction, ingest>>

\* ----------------------------------------------------------- specification
\* the background query task of job j
QueryTask(j) ==
    \/ \E docs \in JobDocLists : Retrieve(j, NoK, docs)
    \/ AssemblePrompt(j)
    \/ Generate(j)
    \/ AddUser(j)
    \/ AddAi(j)
    \/ Return(j)
    \/ RecordQuery(j)

\* the background file task of job j
FileTask(j) ==
    \/ ProcessFile(j)
    \/ RecordUpload(j)

\* The two job trackers with the clients that poll them.
Next ==
    \/ \E j \in Jobs, s \in Sessions : chat(j, s)
    \/ \E j \in Jobs, name \in FileNames, supported \in BOOLEAN, saved \in BOOLEAN :
          upload_file(j, name, supported, saved)
    \/ \E j \in Jobs : QueryTask(j)
    \/ \E j \in Jobs : FileTask(j)
    \/ \E c \in Clients, t \in Trackers, id \in ReadIds : StatusBegin(c, t, id)
    \/ \E c \in Clients : StatusLookup(c)
    \/ \E c \in Clients : StatusFinish(c)

Spec == Init /\ [][Next]_vars

\* The two job trackers with one client that polls the ids of the jobs, as
\* the server schedules them.  A background task is handed to the worker
\* pool when its submit returns and runs from there on whatever the client
\* does; a status handler has no await and runs to its return once it has
\* begun.  The queries are on one session: they share its transcript.
Poller == 1
PolledSession == "s1"

NextLive ==
    \/ \E j \in Jobs : chat(j, PolledSession)
    \/ \E j \in Jobs, name \in FileNames, supported \in BOOLEAN, saved \in BOOLEAN :
          upload_file(j, name, supported, saved)
    \/ \E j \in Jobs : QueryTask(j)
    \/ \E j \in Jobs : FileTask(j)
    \/ \E t \in Trackers, id \in Jobs : StatusBegin(Poller, t, id)
    \/ StatusLookup(Poller)
    \/ StatusFinish(Poller)

Scheduling ==
    /\ \A j \in Jobs : WF_vars(QueryTask(j)) /\ WF_vars(FileTask(j))
    /\ WF_vars(StatusLookup(Poller) \/ StatusFinish(Poller))

SpecLive == Init /\ [][NextLive]_vars /\ Scheduling

\* Concurrent background queries on the session memory.
NextQuery ==
    \/ \E j \in Queries, s \in Sessions : chat(j, s)
    \/ \E j \in Queries : QueryTask(j)

SpecQuery == Init /\ [][NextQuery]_vars

\* One query and the head of one stream, over every list of chunks the
\* similarity search may return.
NextRetrieve ==
    \/ \E s \in Sessions : chat(1, s)
    \/ \E docs \in DocLists : Retrieve(1, NoK, docs)
    \/ AssemblePrompt(1)
    \/ Generate(1)
    \/ AddUser(1)
    \/ AddAi(1)
    \/ Return(1)
    \/ RecordQuery(1)
    \/ \E s \in Sessions : chat_stream(1, s)
    \/ \E docs \in DocLists : StreamRetrieve(1, docs)
    \/ StreamAssemble(1)

SpecRetrieve == Init /\ [][NextRetrieve]_vars

\* The memory and index routes, with background queries on the memory.
NextMemory ==
    \/ \E j \in Jobs, s \in Sessions : chat(j, s)
    \/ \E j \in Jobs : QueryTask(j)
    \/ \E s \in Sessions : clear_memory(s)
    \/ ClearAllCount
    \/ ClearAllWipe
    \/ \E texts \in TextLists : add_texts(texts)
    \/ clear_knowledge_base

SpecMemory == Init /\ [][NextMemory]_vars

\* One PDF extraction, over every PDF of up to MaxPages pages.
NextExtract ==
    \/ \E pdf \in Pdfs, use_ocr \in BOOLEAN : extract_text_from_pdf(pdf, use_ocr)
    \/ ChooseExtraction
    \/ process_with_ocr
    \/ ReturnDocuments

SpecExtract == Init /\ [][NextExtract]_vars

\* One process_file call on a vector store that may hold texts already.
NextIngest ==
    \/ \E texts \in TextLists : ingest.at = "idle" /\ add_texts(texts)
    \/ \E suffix \in Suffixes, use_ocr \in BOOLEAN : process_file(suffix, use_ocr)
    \/ \E pdf \in Pdfs : ingest.at = "pdf" /\ extract_text_from_pdf(pdf, ingest.use_ocr)
    \/ ChooseExtraction
    \/ process_with_ocr
    \/ ReturnDocuments
    \/ PdfDocuments
    \/ ImageDocument
    \/ SplitDocuments
    \/ AddDocuments

SpecIngest == Init /\ [][NextIngest]_vars

\* One query on a vector store that holds the texts added so far.
NextSearch ==
    \/ \E texts \in TextLists : add_texts(texts)
    \/ \E s \in Sessions : chat(1, s)
    \/ \E k \in RequestedK :
          Retrieve(1, k, similarity_search(index, Question(1), top_k(k)))
    \/ AssemblePrompt(1)
    \/ Generate(1)
    \/ AddUser(1)
    \/ AddAi(1)
    \/ Return(1)
    \/ RecordQuery(1)

SpecSearch == Init /\ [][NextSearch]_vars

\* the generator of streaming query k
StreamTask(k) ==
    \/ \E docs \in JobDocLists : StreamRetrieve(k, docs)
    \/ StreamAssemble(k)
    \/ \E tok \in TokenTexts : StreamToken(k, tok)
    \/ StreamGenerationFails(k)
    \/ StreamAddUser(k)
    \/ StreamAddAi(k)
    \/ StreamReraise(k)
    \/ StreamClose(k)

\* Streaming queries.
NextStream ==
    \/ \E k \in Streams, s \in Sessions : chat_stream(k, s)
    \/ \E k \in Streams, docs \in JobDocLists : StreamRetrieve(k, docs)
    \/ \E k \in Streams : StreamAssemble(k)
    \/ \E k \in Streams, tok \in TokenTexts : StreamToken(k, tok)
    \/ \E k \in Streams : StreamGenerationFails(k)
    \/ \E k \in Streams : StreamAddUser(k)
    \/ \E k \in Streams : StreamAddAi(k)
    \/ \E k \in Streams : StreamReraise(k)
    \/ \E k \in Streams : StreamClose(k)

\* the streams start on a store that earlier queries may have written
InitStream == histories \in PriorStores /\ Blank

SpecStream == InitStream /\ [][NextStream]_vars

\* One background query, one streaming query and the memory routes, on a
\* store that earlier queries may have written.
NextSessions ==
    \/ \E s \in Sessions : chat(1, s)
    \/ QueryTask(1)
    \/ \E s \in Sessions : chat_stream(1, s)
    \/ StreamTask(1)
    \/ \E s \in Sessions : clear_memory(s)
    \/ ClearAllCount
    \/ ClearAllWipe

SpecSessions == InitStream /\ [][NextSessions]_vars

\* =================================================================== claims
\* the transcript of session s; an absent session holds no turn
Transcript(s) == IF s \in DOMAIN histories THEN histories[s] ELSE <<>>
TranscriptAfter(s) == IF s \in DOMAIN histories' THEN histories'[s] ELSE <<>>

UserTurn(j) == HumanMessage(Question(j))
AssistantTurn(j) == AIMessage(Answer(j))

EndsWithExchange(h, j) ==
    /\ Len(h) >= 2
    /\ h[Len(h) - 1] = UserTurn(j)
    /\ h[Len(h)] = AssistantTurn(j)

Holds(h, turn) == \E i \in 1..Len(h) : h[i] = turn

\* C1: at the step where a non-streaming query(Q, S) returns successfully
\* with answer A, the transcript of S ends with user:Q, assistant:A.
C1_ReturnEndsWithExchange ==
    [][\A j \in Ids :
          (kind[j] = "query" /\ pc[j] = "ai_added" /\ pc'[j] = "returned")
              => EndsWithExchange(TranscriptAfter(sess[j]), j)]_vars

\* C2: a non-streaming query(Q, S) that has failed, at whatever step, has
\* appended neither its user turn nor its assistant turn to the transcript
\* of S.
C2_FailedQueryAppendsNothing ==
    \A j \in Ids :
        (kind[j] = "query" /\ work[j].tag = "exc")
            => /\ ~Holds(Transcript(sess[j]), UserTurn(j))
               /\ ~Holds(Transcript(sess[j]), AssistantTurn(j))

\* the queries on session s that have made both of their appends
Appended(s) ==
    {j \in Ids : kind[j] = "query" /\ sess[j] = s
                 /\ Holds(Transcript(s), AssistantTurn(j))}
\* no query on session s is between its two appends
NoneAppending(s) ==
    \A j \in Ids : (kind[j] = "query" /\ sess[j] = s) => pc[j] # "user_added"

\* C3: once the concurrent successful queries on one session have made
\* their appends, the transcript holds two turns per query (four for two
\* queries), and every user turn is directly followed by the assistant turn
\* of the same exchange.
C3_ExchangesContiguous ==
    \A s \in Sessions :
        NoneAppending(s) =>
            /\ Len(Transcript(s)) = 2 * Cardinality(Appended(s))
            /\ \A j \in Appended(s) :
                  \E i \in 1..(Len(Transcript(s)) - 1) :
                      /\ Transcript(s)[i] = UserTurn(j)
                      /\ Transcript(s)[i + 1] = AssistantTurn(j)

\* ------------------------------------------------------------ job trackers
Entry(j) == Results(kind[j])[j]
Stored(j) == j \in DOMAIN Results(kind[j])
ResponseFor(j) == response.tr = kind[j] /\ response.id = j

\* C4: file-ingest tracker.  Once the background work of an upload has
\* finished, the first status read for its id returns the terminal result
\* (success with chunks_created, or error with a message) and removes the
\* entry; every later read reports not-found and the result is never sent a
\* second time.
C4_UploadResultReadOnce ==
    \A j \in Ids :
        kind[j] = "upload" =>
            /\ delivered[j] <= 1
            /\ delivered[j] = 1 => (Finished(j) /\ ~Stored(j))
            /\ ResponseFor(j) =>
                  /\ Terminal(response.body) =>
                        response.body = UploadEntry(work[j])
                  /\ (response.after /\ ~Terminal(response.body)) =>
                        delivered[j] = 1
                  /\ (delivered[j] = 1 /\ ~Terminal(response.body)) =>
                        response.body.status = "not_found"

\* a status read of a consumed upload id was answered not-found
C4_Witness ==
    \E j \in Ids :
        /\ kind[j] = "upload" /\ delivered[j] = 1
        /\ ResponseFor(j) /\ response.body.status = "not_found"

\* C5: query tracker.  A status read for a request id chat never issued, or
\* whose terminal result an earlier read has returned, reports not-found.
C5_UnknownQueryIdNotFound ==
    (response.tr = "query"
     /\ \/ response.id = NeverIssued
        \/ /\ response.id \in Ids
           /\ delivered[response.id] >= 1
           /\ ~Terminal(response.body))
        => response.body.status = "not_found"

IsTerminal(entry) == entry.status \in {"completed", "success", "error"}
StoredAfter(j) ==
    j \in DOMAIN (IF kind[j] = "query" THEN query_results' ELSE upload_results')
EntryAfter(j) ==
    (IF kind[j] = "query" THEN query_results' ELSE upload_results')[j]

\* C6: in both trackers the entry of a job id becomes terminal once: the
\* background task stores a terminal value only in the step that ends it, a
\* terminal entry is never replaced by another value, and nothing is stored
\* under the id after its result has been consumed.
C6_SingleTerminalTransition ==
    [][\A j \in Ids :
          kind[j] # "none" =>
              /\ (Stored(j) /\ IsTerminal(Entry(j)))
                    => (~StoredAfter(j) \/ EntryAfter(j) = Entry(j))
              /\ (StoredAfter(j) /\ IsTerminal(EntryAfter(j))
                  /\ ~(Stored(j) /\ IsTerminal(Entry(j))))
                    => (pc[j] # "done" /\ pc'[j] = "done")
              /\ delivered[j] >= 1 => ~StoredAfter(j)]_vars

\* a job whose terminal entry was stored and then consumed
C6_Witness ==
    \E j \in Ids : kind[j] # "none" /\ Finished(j) /\ delivered[j] = 1 /\ ~Stored(j)

InHandler == {c \in Clients : handler[c].at # "idle"}

C8_SubmitRegistersProcessing ==
    \A j \in Ids :
        (kind[j] # "none" /\ pc[j] # "done")
            => (Stored(j) /\ Entry(j).status = "processing")

\* the failure message an entry or a status response carries
MessageOf(t, r) == IF t = "query" /\ "error" \in DOMAIN r THEN r.error ELSE r.message
\* m is the text of failure e, or for an upload the first 200 characters of it
CarriesFailure(t, m, e) ==
    IF t = "query" THEN m = e ELSE (m[1] = e[1] /\ (e[2] = "short" => m = e))

\* C9: when the background work of a job raises, the task still stores an
\* outcome: the entry becomes terminal with status error and the failure
\* message, and a status read that begins after that returns this error
\* (unless an earlier read already consumed it), never a completed result.
C9_FailureIsRecorded ==
    \A j \in Ids :
        (kind[j] # "none" /\ work[j].tag = "exc") =>
            /\ pc[j] = "raised" => ENABLED (RecordQuery(j) \/ RecordUpload(j))
            /\ (Finished(j) /\ delivered[j] = 0) =>
                  /\ Stored(j)
                  /\ Entry(j).status = "error"
                  /\ CarriesFailure(kind[j], MessageOf(kind[j], Entry(j)), work[j].error)
            /\ ResponseFor(j) =>
                  /\ Terminal(response.body) =>
                        /\ response.body.status = "error"
                        /\ CarriesFailure(kind[j], response.body.message, work[j].error)
                  /\ response.after => delivered[j] = 1

\* a status read returned the error of a failed job
C9_Witness ==
    \E j \in Ids :
        /\ kind[j] # "none" /\ work[j].tag = "exc"
        /\ ResponseFor(j) /\ response.body.status = "error"

\* ------------------------------------------------------------------ streams
Terminates(ev) == ev.type \in {"done", "error"}

\* C10: the events of a streaming query that has ended are one sources
\* event, then token events only, then exactly one done or error event.
C10_EventsWellFormed ==
    \A k \in Streams :
        stream[k].at = "ended" =>
            LET out == stream[k].out
            IN /\ Len(out) >= 2
               /\ out[1].type = "sources"
               /\ \A i \in 2..(Len(out) - 1) : out[i].type = "token"
               /\ Terminates(out[Len(out)])

\* the text of the token events of out, concatenated in emission order
RECURSIVE TokensText(_)
TokensText(out) ==
    IF out = <<>> THEN <<>>
    ELSE IF Head(out).type = "token"
         THEN Head(out).token \o TokensText(Tail(out))
         ELSE TokensText(Tail(out))

LastEvent(k) == stream[k].out[Len(stream[k].out)]
EndedWith(k, type) ==
    stream[k].at = "ended" /\ LastEvent(k).type = type

\* the generator of stream k may still emit a token
MayEmitToken(at) == at \in {"started", "sources_sent", "streaming"}

Asked(k, h) == \E i \in 1..Len(h) : h[i] = HumanMessage(StreamQuestion(k))

TranscriptsUnchanged == \A s \in Sessions : TranscriptAfter(s) = Transcript(s)

\* C11: when a streaming query has emitted done, the transcript of its
\* session holds user:Q directly followed by assistant:R, R being the
\* concatenation of the emitted tokens in emission order; as long as the
\* query may still emit a token it has not changed the transcript, and
\* once it has changed it no further token is emitted.
C11_DoneAfterMemoryUpdate ==
    /\ [](\A k \in Streams :
            /\ EndedWith(k, "done") =>
                  LET h == Transcript(stream[k].session)
                  IN \E i \in 1..(Len(h) - 1) :
                        /\ h[i] = HumanMessage(StreamQuestion(k))
                        /\ h[i + 1] = AIMessage(TokensText(stream[k].out))
            /\ MayEmitToken(stream[k].at) =>
                  ~Asked(k, Transcript(stream[k].session)))
    /\ [][\A k \in Streams :
            /\ (stream'[k] # stream[k] /\ MayEmitToken(stream'[k].at))
                  => TranscriptsUnchanged
            /\ (stream[k].at # "idle" /\ ~MayEmitToken(stream[k].at))
                  => TokensText(stream'[k].out) = TokensText(stream[k].out)]_vars

\* a stream on a session with earlier turns ended with done after two
\* token events
C11_Witness ==
    \E k \in Streams :
        /\ EndedWith(k, "done")
        /\ Len(stream[k].out) = 4
        /\ Len(Transcript(stream[k].session)) = 4

\* the generation of stream k failed after some token events
GenerationFailed(k) ==
    /\ stream[k].at \in {"error_sent", "ended", "closed"}
    /\ \E i \in 1..Len(stream[k].out) :
          /\ stream[k].out[i].type = "error"
          /\ stream[k].out[i].error \in {"generation", "timeout"}

\* C12: when generation fails in a streaming query after any number of
\* token events, an error event is emitted, the failing step and what
\* follows it leave every transcript as it was, and the question is not in
\* the transcript of the session.
C12_FailedStreamAppendsNothing ==
    /\ [](\A k \in Streams :
            GenerationFailed(k) =>
               /\ ~Asked(k, Transcript(stream[k].session))
               /\ \E i \in 1..Len(stream[k].out) : stream[k].out[i].type = "error")
    /\ [][\A k \in Streams :
            (stream'[k] # stream[k] /\ stream'[k].at # "idle" /\ GenerationFailed(k)')
               => TranscriptsUnchanged]_vars

\* generation failed after one token event, on a session with earlier turns
C12_Witness ==
    \E k \in Streams :
        /\ GenerationFailed(k)
        /\ \E i \in 1..Len(stream[k].out) : stream[k].out[i].type = "token"
        /\ Transcript(stream[k].session) = PriorExchange

\* ------------------------------------------------------------------ prompts
\* query j has appended its own user turn
HasAsked(j) == kind[j] = "query" /\ pc[j] \in {"user_added", "ai_added", "returned", "done"}

\* the turns of h ahead of the first occurrence of turn
Before(h, turn) ==
    LET i == CHOOSE n \in 1..Len(h) : h[n] = turn /\ \A m \in 1..(n - 1) : h[m] # turn
    IN SubSeq(h, 1, i - 1)

\* C13: the prompt given to generation for query j is the system message
\* with the context, then exactly the turns that precede the query's own
\* user turn in the transcript of its session, then the question, once.
C13_PromptHoldsPriorTurns ==
    \A j \in Queries :
        (HasAsked(j) /\ Holds(Transcript(sess[j]), UserTurn(j))) =>
            local[j].messages =
                <<SystemMessage(local[j].context)>>
                \o Before(Transcript(sess[j]), UserTurn(j))
                \o <<UserTurn(j)>>

\* ---------------------------------------------------------------- retrieval
\* where the text of chunk i starts in the context: behind the texts and
\* the blank lines of the chunks ahead of it
RECURSIVE Offset(_, _)
Offset(docs, i) ==
    IF i = 1 THEN 0
    ELSE Offset(docs, i - 1) + Len(docs[i - 1].page_content) + Len(BlankLine)

\* context is the texts of docs in their order, a blank line between two
JoinedByBlankLines(docs, context) ==
    LET n == Len(docs)
        end(i) == Offset(docs, i) + Len(docs[i].page_content)
    IN /\ Len(context) = IF n = 0 THEN 0 ELSE end(n)
       /\ \A i \in 1..n :
             SubSeq(context, Offset(docs, i) + 1, end(i)) = docs[i].page_content
       /\ \A i \in 1..(n - 1) :
             SubSeq(context, end(i) + 1, end(i) + Len(BlankLine)) = BlankLine

\* one {content, metadata} entry per chunk, in the order of the chunks
OnePerChunk(docs, sources) ==
    /\ Len(sources) = Len(docs)
    /\ \A i \in 1..Len(docs) :
          /\ sources[i].content = docs[i].page_content
          /\ sources[i].metadata = docs[i].metadata

\* C14: for every list of chunks the search returns, the context in the
\* prompt is their texts joined in retrieval order by blank lines, and the
\* sources of the query result and of the sources event hold one
\* {content, metadata} entry per chunk in the same order.
C14_ContextAndSourcesFollowRetrieval ==
    /\ \A j \in Queries :
          /\ (pc[j] \in {"retrieved", "prompted", "generated", "user_added", "ai_added"}
                \/ work[j].tag = "ok")
                => JoinedByBlankLines(local[j].docs, local[j].context)
          /\ (pc[j] \in {"prompted", "generated", "user_added", "ai_added"}
                \/ work[j].tag = "ok")
                => JoinedByBlankLines(local[j].docs, local[j].messages[1].content)
          /\ work[j].tag = "ok" => OnePerChunk(local[j].docs, work[j].value.sources)
    /\ \A k \in Streams :
          /\ stream[k].at \in {"sources_sent", "streaming"}
                => OnePerChunk(stream[k].docs, stream[k].out[1].sources)
          /\ stream[k].at = "streaming"
                => JoinedByBlankLines(stream[k].docs, stream[k].messages[1].content)

\* a query returned and a stream reached its prompt, each on two chunks
\* whose texts differ
C14_Witness ==
    /\ work[1].tag = "ok"
    /\ Len(local[1].docs) = 2
    /\ local[1].docs[1].page_content # local[1].docs[2].page_content
    /\ stream[1].at = "streaming"
    /\ Len(stream[1].docs) = 2
    /\ stream[1].docs[1] # stream[1].docs[2]

\* ------------------------------------------------------------------- memory
\* C15: every add_user_message(S, t) and add_ai_message(S, t) extends the
\* transcript of S by exactly one turn at its end, tagged user respectively
\* assistant with text t, and leaves the earlier turns as they were.
C15_AppendsExtendByOneTurn ==
    [][\A j \in Queries :
         /\ (pc[j] = "generated" /\ pc'[j] = "user_added") =>
               TranscriptAfter(sess[j])
                  = Append(Transcript(sess[j]), [type |-> "human", content |-> Question(j)])
         /\ (pc[j] = "user_added" /\ pc'[j] = "ai_added") =>
               TranscriptAfter(sess[j])
                  = Append(Transcript(sess[j]), [type |-> "ai", content |-> Answer(j)])]_vars

\* an assistant turn was appended to a transcript that held three turns
C15_Witness ==
    \E j \in Queries :
        /\ pc[j] = "ai_added"
        /\ Len(Transcript(sess[j])) = 4
        /\ Transcript(sess[j])[4] = AssistantTurn(j)

\* the step is a reply of clear_memory for session s
ClearMemoryReplies(s) ==
    /\ reply' # reply
    /\ reply'.route = "clear_memory"
    /\ reply'.session = s

\* r is what clear_memory answers after it has cleared session s
RepliesCleared(r, s) ==
    r.status = "success" /\ r.message = <<"Cleared memory for session", s>>

\* C16: clear(S) empties the transcript of an existing S; for an absent S
\* it changes no state and answers with a not-found signal that differs
\* from the answer for an existing session, without an error.
C16_ClearSignalsNotFound ==
    [][\A s \in Sessions :
         ClearMemoryReplies(s) =>
            IF s \in DOMAIN histories
            THEN TranscriptAfter(s) = <<>> /\ RepliesCleared(reply', s)
            ELSE histories' = histories /\ ~RepliesCleared(reply', s)]_vars

\* the step is the wipe of clear_all_memory
ClearAllReplies ==
    /\ reply.at = "counted"
    /\ reply'.route = "clear_all_memory"
    /\ reply'.at = "returned"

\* C17: the count clear-all reports is the number of sessions its wipe
\* removes, also when background queries create sessions meanwhile, and
\* the store holds no session after it.
C17_CountIsSessionsRemoved ==
    [][ClearAllReplies =>
          /\ DOMAIN histories' = {}
          /\ reply'.message[2] = Cardinality(DOMAIN histories)]_vars

\* C18: in every reachable state, clearing a session, clearing all
\* sessions or clearing the index a second time leaves what the first
\* clear left, and the routes are ready to be called again.
C18_ClearsIdempotent ==
    /\ \A s \in Sessions :
          clear_history(clear_history(histories, s), s) = clear_history(histories, s)
    /\ clear_all(clear_all(histories)) = clear_all(histories)
    /\ vectorstore_clear(vectorstore_clear(index)) = vectorstore_clear(index)
    /\ (reply.route = "clear_memory" /\ LoopIdle) => ENABLED clear_memory(reply.session)
    /\ (reply.route = "clear_all_memory" /\ LoopIdle) => ENABLED ClearAllCount
    /\ (reply.route = "clear_knowledge_base" /\ LoopIdle) => ENABLED clear_knowledge_base

\* clear_memory has emptied a session that a finished query had written,
\* in a state whose other session still holds turns
C18_Witness ==
    /\ reply.route = "clear_memory"
    /\ reply.session \in DOMAIN histories
    /\ histories[reply.session] = <<>>
    /\ \E j \in Jobs : work[j].tag = "ok" /\ sess[j] = reply.session

\* ------------------------------------------------------------ PDF extraction
\* the extraction has decided between direct text and OCR
Decided == extraction.at \in {"ocr", "extracted", "returned"}
\* ... and went the OCR way
WentThroughOcr == extraction.at = "ocr" \/ extraction.through = "ocr"

\* the average over the first min(3, n) pages is below 100, or no page
BelowThreshold(pdf) ==
    CASE Len(pdf) = 0 -> TRUE
      [] Len(pdf) = 1 -> pdf[1] < 100
      [] Len(pdf) = 2 -> pdf[1] + pdf[2] < 200
      [] OTHER -> pdf[1] + pdf[2] + pdf[3] < 300

\* C19: a PDF goes through OCR exactly when use_ocr forces it or the
\* average text length of its first min(3, n) pages is strictly below 100
\* (or it has no page), whatever its later pages hold; three pages of
\* fewer than 50 characters go through OCR, three of 500 or more do not
\* unless use_ocr is set.
C19_ScannedHeuristic ==
    Decided =>
        /\ WentThroughOcr <=> (extraction.use_ocr \/ BelowThreshold(extraction.pdf))
        /\ (Len(extraction.pdf) = 3 /\ \A i \in 1..3 : extraction.pdf[i] < 50)
              => WentThroughOcr
        /\ (Len(extraction.pdf) = 3 /\ \A i \in 1..3 : extraction.pdf[i] >= 500
              /\ ~extraction.use_ocr)
              => ~WentThroughOcr

\* a PDF whose three first pages are short and whose fourth is long went
\* through OCR without use_ocr
C19_Witness ==
    /\ extraction.at = "returned"
    /\ extraction.through = "ocr"
    /\ ~extraction.use_ocr
    /\ Len(extraction.pdf) = 4
    /\ extraction.pdf[4] = 500
    /\ Len(extraction.documents) = 4

\* C20: every document extract_text_from_pdf returns carries the
\* filename, its page number 1..n in page order, the total n, and a type
\* tag that is the OCR tag for pages produced through OCR and the direct
\* tag for pages of direct extraction.
C20_MetadataTagsExtractionMethod ==
    extraction.at = "returned" =>
        \A i \in 1..Len(extraction.documents) :
            LET doc == extraction.documents[i]
            IN /\ doc.metadata.filename = PdfPath
               /\ doc.metadata.page = i
               /\ doc.metadata.total_pages = Len(extraction.documents)
               /\ doc.metadata.type =
                     IF doc.page_content.via = "ocr" THEN "pdf_ocr" ELSE "pdf"

\* ---------------------------------------------------------- file ingestion
\* the extraction of the file's text failed: the PDF loader, the
\* conversion to images or the OCR
ExtractionFailure ==
    \/ ingest.at # "idle" /\ ingest.file_ext = ".pdf" /\ extraction.at # "idle"
          /\ extraction.error # "none"
    \/ ingest.at = "raised" /\ ingest.error = "ocr"

\* C21: when the text extraction of a file fails, process_file does not
\* return a chunk count: it ends in a failure that carries the cause.
C21_ExtractionFailurePropagates ==
    ExtractionFailure =>
        /\ ingest.at \notin {"documents", "chunked", "returned"}
        /\ ingest.at = "raised" =>
              ingest.error = IF ingest.file_ext = ".pdf" THEN extraction.error ELSE "ocr"

\* C22: process_file on a suffix that is neither .pdf nor a supported
\* image suffix fails as unsupported before an extractor, the chunker or
\* an insertion runs, and the vector index is as it was.
C22_UnsupportedSuffixFailsFirst ==
    (ingest.at # "idle"
       /\ ingest.file_ext \notin {".pdf", ".png", ".jpg", ".jpeg", ".tiff", ".bmp"}) =>
        /\ ingest.at = "raised"
        /\ ingest.error = "Unsupported file type"
        /\ extraction.at = "idle"
        /\ ingest.documents = <<>> /\ ingest.chunks = <<>>
        /\ ingest.inserts = 0
        /\ index = ingest.before

\* process_file was called on a text file while the index held texts
C22_Witness ==
    /\ ingest.at = "raised"
    /\ ingest.file_ext = ".txt"
    /\ Len(index) = 2

\* the number of chunks the documents are cut into
RECURSIVE ChunksOf(_)
ChunksOf(documents) ==
    IF documents = <<>> THEN 0
    ELSE Parts(Head(documents).page_content.length) + ChunksOf(Tail(documents))

\* C23: process_documents chunks every document first, then inserts all
\* the chunks in one insert call and returns their number; when the
\* chunking or the insertion fails the failure reaches the caller, no
\* count is returned and no further insert is attempted.
C23_OneInsertOfAllChunks ==
    /\ ingest.at \in {"documents", "chunked"} => ingest.inserts = 0 /\ index = ingest.before
    /\ ingest.at = "returned" =>
          /\ ingest.inserts = 1
          /\ ingest.result = ChunksOf(ingest.documents)
          /\ Len(ingest.chunks) = ingest.result
          /\ Len(index) = Len(ingest.before) + ingest.result
          /\ SubSeq(index, 1, Len(ingest.before)) = ingest.before
    /\ (ingest.at = "raised" /\ ingest.error \in {"chunking", "insertion"}) =>
          /\ ingest.result = "none"
          /\ ingest.inserts = IF ingest.error = "insertion" THEN 1 ELSE 0
          /\ ~ENABLED AddDocuments

\* a PDF of two pages, cut into three chunks, was added to an index that
\* held a text
C23_Witness ==
    /\ ingest.at = "returned"
    /\ Len(ingest.documents) = 2
    /\ ingest.result = 3
    /\ Len(ingest.before) = 1

\* --------------------------------------------------------------- the search
\* the step is the search of query j
Searches(j) == kind[j] = "query" /\ pc[j] = "queued" /\ pc'[j] = "retrieved"

\* C24: a search with k >= 1 returns at most k entries, fewer only when
\* the index holds fewer, closest first and the earlier inserted first
\* among equally close ones, none left out being closer than one
\* returned; the query searches with the k of the request, or with the
\* default top-k when the request has none.
C24_SearchReturnsTopK ==
    [][\A j \in Queries :
         Searches(j) =>
            LET docs == local'[j].docs
                k == local'[j].k
                n == Len(index)
                found == {docs[r].metadata.entry : r \in 1..Len(docs)}
                sim(a) == IF index[a] = "beta" THEN 2 ELSE 1
            IN /\ k = IF local'[j].requested >= 1 THEN local'[j].requested
                       ELSE retrieval_top_k
               /\ Len(docs) = IF k < n THEN k ELSE n
               /\ \A r \in 1..Len(docs) :
                     /\ docs[r].metadata.entry \in 1..n
                     /\ docs[r].page_content = <<index[docs[r].metadata.entry]>>
               /\ \A r \in 1..(Len(docs) - 1) :
                     LET a == docs[r].metadata.entry
                         b == docs[r + 1].metadata.entry
                     IN sim(a) > sim(b) \/ (sim(a) = sim(b) /\ a < b)
               /\ \A a \in found, b \in (1..n) \ found :
                     sim(a) > sim(b) \/ (sim(a) = sim(b) /\ a < b)]_vars

\* a search for one chunk on an index of two texts returned the later,
\* closer one
C24_Witness ==
    /\ pc[1] = "retrieved"
    /\ local[1].requested = 1
    /\ local[1].k = 1
    /\ Len(index) = 2
    /\ Len(local[1].docs) = 1
    /\ local[1].docs[1].metadata.entry = 2

\* ----------------------------------------------------------------- progress
Accepted(j) == kind[j] # "none"
\* the status of job id j is read again and again
KeepsPolling(j) ==
    SF_vars(\E t \in Trackers : StatusBegin(Poller, t, j))

\* C25: every accepted job (query or upload) comes to have its terminal
\* status recorded under its id, whether or not anybody polls it, and the
\* recorded status stays until a read consumes it; when the id keeps being
\* polled, a status read eventually returns the terminal status.
C25_AcceptedJobsEndRecorded ==
    /\ \A j \in Jobs : Accepted(j) ~> Finished(j)
    /\ \A j \in Jobs : KeepsPolling(j) => (Accepted(j) ~> (delivered[j] >= 1))
    /\ [](\A j \in Jobs :
            (Accepted(j) /\ Finished(j) /\ delivered[j] = 0)
                => (Stored(j) /\ IsTerminal(Entry(j))))

\* the terminal status of a finished job has just been returned to a poll
\* that began after the job had finished
C25_Witness ==
    \E j \in Jobs :
        /\ Accepted(j) /\ Finished(j) /\ delivered[j] = 1
        /\ ResponseFor(j) /\ response.after /\ Terminal(response.body)

\* ------------------------------------------------------- transcript shape
\* user and assistant turns alternate, the first turn being a user turn
Alternates(h) ==
    \A i \in 1..Len(h) : h[i].type = (IF i % 2 = 1 THEN "human" ELSE "ai")

\* C26: in every reachable state, each session transcript alternates user
\* and assistant turns starting with a user turn, and the assistant turn of
\* a query stands directly after the user turn of the same query, also when
\* clear_history or clear_all runs while the query is in progress.
C26_TranscriptsAlternate ==
    \A s \in DOMAIN histories :
        /\ Alternates(histories[s])
        /\ \A j \in Jobs, i \in 1..Len(histories[s]) :
              (kind[j] = "query" /\ histories[s][i] = AssistantTurn(j))
                  => (i > 1 /\ histories[s][i - 1] = UserTurn(j))

\* ------------------------------------------------------ session isolation
Present(s) == s \in DOMAIN histories
PresentAfter(s) == s \in DOMAIN histories'
\* the step leaves the existence and the transcript of every session but s
OthersUnchanged(s) ==
    \A t \in Sessions \ {s} :
        /\ Present(t) <=> PresentAfter(t)
        /\ Transcript(t) = TranscriptAfter(t)

\* C27: a step of the memory operations addressed to session S (the lazy
\* get_history, the two appends, clear_history), of a query on S or of a
\* stream on S leaves the existence and the transcript of every other
\* session unchanged.
C27_SessionsIsolated ==
    [][/\ \A s \in Sessions : clear_memory(s) => OthersUnchanged(s)
       /\ \A j \in Jobs : QueryTask(j) => OthersUnchanged(sess[j])
       /\ \A k \in Streams : StreamTask(k) => OthersUnchanged(stream[k].session)]_vars

\* a query, a stream or a clear has written the transcript of one session
\* while another session holds an earlier exchange
C27_Witness ==
    \E s \in Sessions, t \in Sessions :
        /\ s # t /\ Present(s) /\ Transcript(t) = PriorExchange
        /\ \/ \E j \in Jobs : /\ kind[j] = "query" /\ sess[j] = s
                              /\ Holds(Transcript(s), AssistantTurn(j))
           \/ \E k \in Streams : /\ stream[k].at = "ended" /\ stream[k].session = s
                                 /\ Holds(Transcript(s), AIMessage(stream[k].text))
        /\ reply.route = "clear_memory" /\ reply.session = s

\* --------------------------------------------------------- abandoned streams
Closed(k) == stream[k].at = "closed"

\* C28: when the consumer of a streaming query closes the stream before the
\* generator has reached its memory update, after the sources event or after
\* any number of token events, the closing step leaves every transcript as
\* it was, the question is not in the transcript of the session, no done
\* event has been emitted, and the closed generator takes no further step.
C28_ClosedStreamPersistsNothing ==
    /\ [](\A k \in Streams :
            Closed(k) =>
               /\ ~Asked(k, Transcript(stream[k].session))
               /\ \A i \in 1..Len(stream[k].out) : stream[k].out[i].type # "done")
    /\ [][\A k \in Streams :
            /\ (~Closed(k) /\ Closed(k)') => TranscriptsUnchanged
            /\ Closed(k) => stream'[k] = stream[k]]_vars

\* a stream on a session with earlier turns was closed after two token
\* events
C28_Witness ==
    \E k \in Streams :
        /\ Closed(k)
        /\ Len(stream[k].out) = 3 /\ LastEvent(k).type = "token"
        /\ Transcript(stream[k].session) = PriorExchange

\* ------------------------------------------------------- the session id set
\* the step is one of a query or of a stream on session s
AccessOf(s) ==
    \/ \E j \in Jobs : sess[j] = s /\ QueryTask(j)
    \/ \E k \in Streams : stream[k].session = s /\ StreamTask(k)

\* C29: a session id enters the store only in a step of a query or of a
\* stream on that session (the lazy creation of get_history and of the
\* appends, kept when the query fails afterwards) and leaves it only by
\* clear_all; clear_history(S) leaves the set of session ids and
\* get_session_count as they were, a present S being left with an empty
\* transcript.
C29_SessionIdsLazyCreated ==
    [][/\ \A s \in Sessions :
            /\ (~Present(s) /\ PresentAfter(s)) => AccessOf(s)
            /\ (Present(s) /\ ~PresentAfter(s)) => ClearAllWipe
       /\ \A s \in Sessions :
            clear_memory(s) =>
                /\ DOMAIN histories' = DOMAIN histories
                /\ get_session_count(histories') = get_session_count(histories)
                /\ Present(s) => TranscriptAfter(s) = <<>>]_vars

\* a query that failed after the lazy creation left its session in the
\* store, and a clear_history of a session that was never accessed left it
\* absent
C29_Witness ==
    \E j \in Jobs :
        /\ kind[j] = "query" /\ work[j].tag = "exc"
        /\ Present(sess[j]) /\ Transcript(sess[j]) = <<>>
        /\ reply.route = "clear_memory" /\ ~Present(reply.session)

\* --------------------------------------------------------- rejected uploads
\* C30: an upload whose extension is not among the supported formats is
\* answered 400 with an error body that carries no upload id, and the step
\* changes nothing else: no entry in either tracker, no file in the upload
\* directory, no job issued or queued.
C30_UnsupportedUploadRejected ==
    [][\A j \in Jobs, name \in FileNames, saved \in BOOLEAN :
          upload_file(j, name, FALSE, saved) =>
              /\ response'.status_code = 400
              /\ response'.body.status = "error"
              /\ "upload_id" \notin DOMAIN response'.body
              /\ UNCHANGED <<histories, query_results, upload_results, upload_dir,
                             kind, sess, pc, work, handler, delivered, index>>]_vars

\* an upload was rejected while an accepted one was still queued
C30_Witness ==
    /\ response.tr = "submit" /\ response.status_code = 400
    /\ \E j \in Jobs :
          /\ kind[j] = "upload" /\ pc[j] = "queued"
          /\ Stored(j) /\ Entry(j) = ProcessingEntry
    /\ upload_dir = FileNames

====
